---- MODULE Spec2Model ----
(***************************************************************************)
(* Model of the address-book assistant (goit-pycore-hw-08): the field      *)
(* validators, Record, AddressBook with its upcoming-birthday query, and   *)
(* the command loop of main.py.                                            *)
(*                                                                         *)
(* A Python str is a sequence of characters; a character is a one-letter   *)
(* TLA+ string, except the non-ASCII digit U+0662 (ARABIC-INDIC DIGIT TWO),*)
(* which is written by its code point.  A datetime.date is a record        *)
(* [year, month, day].                                                     *)
(***************************************************************************)
EXTENDS Integers, Sequences, FiniteSets, TLC

VARIABLES
    today,        \* the local calendar date datetime.today() reports
    data,         \* AddressBook.data: the records in dict insertion order, keyed by name
    record,       \* a Record under direct use of its methods
    outcome,      \* the last call: what was called, with what, what it raised or returned
    pc,           \* position of use_case: "running" in the loop, "terminated" after it
    user_input,   \* the last line read by input()
    saved,        \* content of the cache file: <<>> when not written, <<book>> when pickled
    steps,        \* number of lines read so far
    passed        \* history: per name, the record last passed to add_record (<<>> if none)

vars == <<today, data, record, outcome, pc, user_input, saved, steps, passed>>

----------------------------------------------------------------------------
(* Bounds of the exploration *)

MaxPhones == 3
MaxLines == 3
WindowLen == 7

----------------------------------------------------------------------------
(* Program constants, entities.py:25-32 *)

PHONE_LENGTH == 10
DAYS_OF_UPCOMING_RANGE == 7
ISO_SATURDAY == 6
ISO_SUNDAY == 7

(* Exceptions, exceptions.py and the builtins the code lets escape *)
NoError == "none"
NoRecordError == "NoRecordError"
InvalidPhoneNumberFormatError == "InvalidPhoneNumberFormatError"
InvalidBirthdayFormatError == "InvalidBirthdayFormatError"
NoPhoneError == "NoPhoneError"
ValueError == "ValueError"
IndexError == "IndexError"

----------------------------------------------------------------------------
(* Strings *)

AsciiDigits == {"0", "1", "2", "3", "4", "5", "6", "7", "8", "9"}

(* Characters c for which Python's c.isdigit() is true: the ASCII digits   *)
(* and the other Unicode digits, here U+0662.                              *)
UnicodeDigits == AsciiDigits \cup {"U+0662"}

Rep(c, n) == [i \in 1..n |-> c]

(* str.isdigit(): every character is a digit and there is at least one *)
isdigit(s) == Len(s) > 0 /\ \A i \in 1..Len(s) : s[i] \in UnicodeDigits

----------------------------------------------------------------------------
(* Field validators *)

(* Name.__init__: what it raises *)
Name_init(value) == IF Len(value) = 0 THEN ValueError ELSE NoError

(* Phone.__init__: what it raises *)
Phone_init(value) ==
    IF Len(value) # PHONE_LENGTH THEN InvalidPhoneNumberFormatError
    ELSE IF ~isdigit(value) THEN InvalidPhoneNumberFormatError
         ELSE NoError

----------------------------------------------------------------------------
(* Record *)

NoBirthday == <<>>

(* Record.__init__; the birthday is <<>> for None and <<date>> otherwise *)
Record_init(name) == [name |-> name, phones |-> <<>>, birthday |-> NoBirthday]

(* list.index(x): the 0-based position of the first element equal to x;    *)
(* raises ValueError when there is none.                                   *)
list_index_last(s, x) ==
    IF \E i \in 1..Len(s) : s[i] = x
    THEN [raised |-> NoError,
          value |-> (CHOOSE i \in 1..Len(s) :
                        s[i] = x /\ \A j \in (i + 1)..Len(s) : s[j] # x) - 1]
    ELSE [raised |-> ValueError, value |-> -1]

list_index(s, x) ==
    IF \E i \in 1..Len(s) : s[i] = x
    THEN [raised |-> NoError,
          value |-> (CHOOSE i \in 1..Len(s) :
                        s[i] = x /\ \A j \in 1..(i - 1) : s[j] # x) - 1]
    ELSE [raised |-> ValueError, value |-> -1]

(* the list without its element at 0-based position k *)
list_pop(s, k) == SubSeq(s, 1, k) \o SubSeq(s, k + 2, Len(s))

(* Record.add_phone *)
add_phone(r, phone) ==
    LET e == Phone_init(phone) IN
    IF e # NoError THEN [record |-> r, raised |-> e]
    ELSE [record |-> [r EXCEPT !.phones = Append(@, phone)], raised |-> NoError]

(* Record.remove_phone: list.remove raises ValueError when nothing matches *)
remove_phone(r, phone) ==
    LET e == Phone_init(phone)
        at == list_index(r.phones, phone) IN
    IF e # NoError THEN [record |-> r, raised |-> e]
    ELSE IF at.raised # NoError THEN [record |-> r, raised |-> ValueError]
    ELSE [record |-> [r EXCEPT !.phones = list_pop(@, at.value)], raised |-> NoError]

(* Record.edit_phone *)
edit_phone_validate_first(r, phone, new_phone) ==
    LET e == Phone_init(phone)
        n == Phone_init(new_phone)
        at == list_index(r.phones, phone) IN
    IF e # NoError THEN [record |-> r, raised |-> e]
    ELSE IF n # NoError THEN [record |-> r, raised |-> n]
    ELSE IF at.raised # NoError THEN [record |-> r, raised |-> at.raised]
    ELSE [record |-> [r EXCEPT !.phones[at.value + 1] = new_phone],
          raised |-> NoError]

edit_phone(r, phone, new_phone) ==
    LET e == Phone_init(phone)
        at == list_index(r.phones, phone)
        n == Phone_init(new_phone) IN
    IF e # NoError THEN [record |-> r, raised |-> e]
    ELSE IF at.raised # NoError THEN [record |-> r, raised |-> at.raised]
    ELSE IF at.value < 0 THEN [record |-> r, raised |-> NoPhoneError]
    ELSE IF n # NoError THEN [record |-> r, raised |-> n]
    ELSE [record |-> [r EXCEPT !.phones[at.value + 1] = new_phone],
          raised |-> NoError]

----------------------------------------------------------------------------
(* datetime.date *)

Date(y, m, d) == [year |-> y, month |-> m, day |-> d]

IsLeap(y) == y % 4 = 0 /\ (y % 100 # 0 \/ y % 400 = 0)

DaysInMonth(y, m) ==
    IF m = 2 THEN (IF IsLeap(y) THEN 29 ELSE 28)
    ELSE IF m \in {4, 6, 9, 11} THEN 30 ELSE 31

(* date(year, month, day): what the constructor raises *)
date_init_feb29_always(y, m, d) ==
    IF m \in 1..12 /\ d >= 1 /\ (d <= DaysInMonth(y, m) \/ (m = 2 /\ d = 29))
    THEN NoError ELSE ValueError

date_init(y, m, d) ==
    IF y \in 1..9999 /\ m \in 1..12 /\ d \in 1..DaysInMonth(y, m)
    THEN NoError ELSE ValueError

(* date.__lt__: dates compare as (year, month, day) *)
date_lt(a, b) ==
    \/ a.year < b.year
    \/ a.year = b.year /\ a.month < b.month
    \/ a.year = b.year /\ a.month = b.month /\ a.day < b.day

DaysBeforeYear(y) ==
    (y - 1) * 365 + (y - 1) \div 4 - (y - 1) \div 100 + (y - 1) \div 400

RECURSIVE DaysBeforeMonth(_, _)
DaysBeforeMonth(y, m) ==
    IF m = 1 THEN 0 ELSE DaysBeforeMonth(y, m - 1) + DaysInMonth(y, m - 1)

(* date.toordinal(): days since 0001-01-01, which is day 1 *)
toordinal(d) == DaysBeforeYear(d.year) + DaysBeforeMonth(d.year, d.month) + d.day

(* date.isoweekday(): Monday is 1, Sunday is 7 *)
isoweekday(d) == LET w == toordinal(d) % 7 IN IF w = 0 THEN 7 ELSE w

NextDay(d) ==
    IF d.day < DaysInMonth(d.year, d.month) THEN Date(d.year, d.month, d.day + 1)
    ELSE IF d.month < 12 THEN Date(d.year, d.month + 1, 1)
    ELSE Date(d.year + 1, 1, 1)

(* date + timedelta(days=n), n >= 0 *)
RECURSIVE AddDays(_, _)
AddDays(d, n) == IF n = 0 THEN d ELSE AddDays(NextDay(d), n - 1)

(* the decimal digits of n, zero-padded to the given width *)
RECURSIVE Digits(_, _)
Digits(n, width) ==
    IF width = 0 THEN <<>>
    ELSE Append(Digits(n \div 10, width - 1), ToString(n % 10))

(* datetime.strftime(d, DATE_PATTERN) with DATE_PATTERN = "%Y.%m.%d" *)
strftime(d) ==
    Digits(d.year, 4) \o <<".">> \o Digits(d.month, 2) \o <<".">> \o Digits(d.day, 2)

----------------------------------------------------------------------------
(* AddressBook *)

Keys(book) == {book[i].name : i \in 1..Len(book)}

KeyIndex(book, name) == CHOOSE i \in 1..Len(book) : book[i].name = name

(* AddressBook.add_record: self.data[record.name.value] = record; an       *)
(* existing key keeps its place in the dict, a new one goes last.          *)
add_record_keep_existing(book, r) ==
    IF r.name \in Keys(book) THEN book ELSE Append(book, r)

add_record(book, r) ==
    IF r.name \in Keys(book)
    THEN [book EXCEPT ![KeyIndex(book, r.name)] = r]
    ELSE Append(book, r)

(* AddressBook.find *)
find(book, name) ==
    IF name \notin Keys(book) THEN [raised |-> NoRecordError, value |-> <<>>]
    ELSE [raised |-> NoError, value |-> <<book[KeyIndex(book, name)]>>]

(* AddressBook.delete *)
delete(book, name) ==
    IF name \notin Keys(book) THEN [book |-> book, raised |-> NoRecordError]
    ELSE [book |-> list_pop(book, KeyIndex(book, name) - 1), raised |-> NoError]

(* AddressBook.all_records: list(self.data.values()) *)
all_records(book) == book

(* entities.py:302-306: a Saturday moves 2 days on, a Sunday 1 *)
weekend_shift_none(congrats) == congrats

weekend_shift(congrats) ==
    LET congrats_day_of_week == isoweekday(congrats)
        days_factor == IF congrats_day_of_week = ISO_SUNDAY THEN 1 ELSE 2 IN
    IF congrats_day_of_week >= ISO_SATURDAY
    THEN AddDays(congrats, days_factor) ELSE congrats

(* entities.py:295 *)
is_birthday_passed_after_shift(this_year_birthday_date, current_date) ==
    date_lt(weekend_shift(this_year_birthday_date), current_date)

is_birthday_passed(this_year_birthday_date, current_date) ==
    date_lt(this_year_birthday_date, current_date)

(* entities.py:307-309 *)
in_upcoming_range_before(congrats, current_date) ==
    toordinal(congrats) - toordinal(current_date) < DAYS_OF_UPCOMING_RANGE

in_upcoming_range(congrats, current_date) ==
    toordinal(congrats) - toordinal(current_date) <= DAYS_OF_UPCOMING_RANGE

(* entities.py:290-306: the congratulation date of one birthday, or the    *)
(* ValueError of a date() that cannot be built                             *)
congrats_date(birthday_date, current_date) ==
    LET current_year == current_date.year
        birthday_month == birthday_date.month
        birthday_day == birthday_date.day
        this_year_birthday_date == Date(current_year, birthday_month, birthday_day)
        next_year_birthday_date == Date(current_year + 1, birthday_month, birthday_day)
    IN
    IF date_init(current_year, birthday_month, birthday_day) # NoError
    THEN [raised |-> ValueError, value |-> <<>>]
    ELSE IF is_birthday_passed(this_year_birthday_date, current_date)
         THEN IF date_init(current_year + 1, birthday_month, birthday_day) # NoError
              THEN [raised |-> ValueError, value |-> <<>>]
              ELSE [raised |-> NoError,
                    value |-> <<weekend_shift(next_year_birthday_date)>>]
         ELSE [raised |-> NoError,
               value |-> <<weekend_shift(this_year_birthday_date)>>]

(* the for loop of get_upcoming_birthdays from record i on, with the       *)
(* result list built so far                                                *)
RECURSIVE upcoming_loop(_, _, _, _)
upcoming_loop(records, i, current_date, upcoming_birthdays_result) ==
    IF i > Len(records)
    THEN [raised |-> NoError, value |-> upcoming_birthdays_result]
    ELSE IF records[i].birthday = NoBirthday
    THEN upcoming_loop(records, i + 1, current_date, upcoming_birthdays_result)
    ELSE LET c == congrats_date(records[i].birthday[1], current_date) IN
         IF c.raised # NoError THEN [raised |-> c.raised, value |-> <<>>]
         ELSE IF in_upcoming_range(c.value[1], current_date)
         THEN upcoming_loop(records, i + 1, current_date,
                  Append(upcoming_birthdays_result,
                         [user |-> records[i],
                          congratulation_date |-> strftime(c.value[1])]))
         ELSE upcoming_loop(records, i + 1, current_date, upcoming_birthdays_result)

(* AddressBook.get_upcoming_birthdays, with datetime.today().date() given *)
get_upcoming_birthdays(book, current_date) ==
    upcoming_loop(all_records(book), 1, current_date, <<>>)

----------------------------------------------------------------------------
(* Inputs *)

NAME_ANN == <<"a", "n", "n">>
NAME_BOB == <<"b", "o", "b">>
NAME_EVE == <<"e", "v", "e">>
Names == {NAME_ANN, NAME_BOB, NAME_EVE}

PHONE_1 == Rep("1", PHONE_LENGTH)
PHONE_2 == Rep("2", PHONE_LENGTH)
PHONE_ARABIC == Append(Rep("1", PHONE_LENGTH - 1), "U+0662")
PHONE_ABC == <<"a", "b", "c">>
PHONE_SHORT == Rep("1", PHONE_LENGTH - 1)
PHONE_LONG == Rep("1", PHONE_LENGTH + 1)
PHONE_LETTER == Append(Rep("1", PHONE_LENGTH - 1), "a")
PHONE_EMPTY == <<>>

RawPhones == {PHONE_1, PHONE_2, PHONE_ARABIC, PHONE_ABC, PHONE_SHORT,
              PHONE_LONG, PHONE_LETTER, PHONE_EMPTY}

(* the strings the claims call well-formed phones *)
WellFormed(s) == Len(s) = PHONE_LENGTH /\ \A i \in 1..Len(s) : s[i] \in AsciiDigits

DatesFrom(start, n) == {AddDays(start, k) : k \in 0..(n - 1)}

(* the days datetime.today() is taken from: a week across a year's end in  *)
(* a common year, a week around Feb 29 of a leap year, a week in June      *)
Todays ==
    DatesFrom(Date(2023, 12, 27), WindowLen)
    \cup DatesFrom(Date(2024, 2, 26), WindowLen)
    \cup DatesFrom(Date(2024, 6, 7), WindowLen)

(* birthdays whose month and day lie from 2 days before to 9 days after    *)
(* those days, and one on Feb 29                                           *)
BirthdaySpan == WindowLen + 11

FEB_29 == Date(2000, 2, 29)

Birthdays ==
    DatesFrom(Date(1990, 12, 25), BirthdaySpan)
    \cup DatesFrom(Date(1990, 2, 24), BirthdaySpan)
    \cup DatesFrom(Date(1990, 6, 5), BirthdaySpan)
    \cup {FEB_29}

NoOutcome == [op |-> "none", args |-> <<>>, raised |-> NoError, value |-> <<>>]

NothingPassed == [n \in Names |-> <<>>]

----------------------------------------------------------------------------
(* Record used directly: add_phone, remove_phone, edit_phone *)

InitRecord ==
    /\ today = Date(2024, 6, 10)
    /\ data = <<>>
    /\ record \in {Record_init(NAME_ANN),
                   [Record_init(NAME_ANN) EXCEPT !.birthday = <<Date(1990, 6, 8)>>]}
    /\ outcome = NoOutcome
    /\ pc = "idle"
    /\ user_input = <<>>
    /\ saved = <<>>
    /\ steps = 0
    /\ passed = NothingPassed

AddPhoneCall(phone) ==
    /\ Len(record.phones) < MaxPhones
    /\ LET res == add_phone(record, phone) IN
       /\ record' = res.record
       /\ outcome' = [op |-> "add_phone", args |-> <<phone>>,
                      raised |-> res.raised, value |-> <<>>]
    /\ UNCHANGED <<today, data, pc, user_input, saved, steps, passed>>

RemovePhoneCall(phone) ==
    /\ LET res == remove_phone(record, phone) IN
       /\ record' = res.record
       /\ outcome' = [op |-> "remove_phone", args |-> <<phone>>,
                      raised |-> res.raised, value |-> <<>>]
    /\ UNCHANGED <<today, data, pc, user_input, saved, steps, passed>>

EditPhoneCall(phone, new_phone) ==
    /\ LET res == edit_phone(record, phone, new_phone) IN
       /\ record' = res.record
       /\ outcome' = [op |-> "edit_phone", args |-> <<phone, new_phone>>,
                      raised |-> res.raised, value |-> <<>>]
    /\ UNCHANGED <<today, data, pc, user_input, saved, steps, passed>>

NextRecord ==
    \/ \E phone \in RawPhones : AddPhoneCall(phone)
    \/ \E phone \in RawPhones : RemovePhoneCall(phone)
    \/ \E phone \in RawPhones, new_phone \in RawPhones : EditPhoneCall(phone, new_phone)

SpecRecord == InitRecord /\ [][NextRecord]_vars

----------------------------------------------------------------------------
(* AddressBook used directly: add_record, find, delete *)

RecordInputs ==
    {[name |-> n, phones |-> ps, birthday |-> b] :
        n \in Names, ps \in {<<>>, <<PHONE_1>>},
        b \in {NoBirthday, <<Date(1990, 6, 8)>>}}

NameArgs == Names \cup {<<>>}

InitBook ==
    /\ today = Date(2024, 6, 10)
    /\ data = <<>>
    /\ record = Record_init(NAME_ANN)
    /\ outcome = NoOutcome
    /\ pc = "idle"
    /\ user_input = <<>>
    /\ saved = <<>>
    /\ steps = 0
    /\ passed = NothingPassed

AddRecordCall(r) ==
    /\ data' = add_record(data, r)
    /\ passed' = [passed EXCEPT ![r.name] = <<r>>]
    /\ outcome' = [op |-> "add_record", args |-> <<r.name>>,
                   raised |-> NoError, value |-> <<>>]
    /\ UNCHANGED <<today, record, pc, user_input, saved, steps>>

FindCall(name) ==
    /\ LET res == find(data, name) IN
       outcome' = [op |-> "find", args |-> <<name>>,
                   raised |-> res.raised, value |-> res.value]
    /\ UNCHANGED <<today, data, record, pc, user_input, saved, steps, passed>>

DeleteCall(name) ==
    /\ LET res == delete(data, name) IN
       /\ data' = res.book
       /\ outcome' = [op |-> "delete", args |-> <<name>>,
                      raised |-> res.raised, value |-> <<>>]
    /\ UNCHANGED <<today, record, pc, user_input, saved, steps, passed>>

NextBook ==
    \/ \E r \in RecordInputs : AddRecordCall(r)
    \/ \E name \in NameArgs : FindCall(name)
    \/ \E name \in NameArgs : DeleteCall(name)

SpecBook == InitBook /\ [][NextBook]_vars

----------------------------------------------------------------------------
(* The upcoming-birthday query over books of up to two records *)

BirthdayRecords(n) ==
    {[name |-> n, phones |-> <<>>, birthday |-> b] :
        b \in {NoBirthday} \cup {<<d>> : d \in Birthdays}}

BirthdayBooks ==
    {<<>>}
    \cup {<<r>> : r \in BirthdayRecords(NAME_ANN) \cup BirthdayRecords(NAME_BOB)}
    \cup {<<r, q>> : r \in BirthdayRecords(NAME_ANN), q \in BirthdayRecords(NAME_BOB)}
    \cup {<<q, r>> : r \in BirthdayRecords(NAME_ANN), q \in BirthdayRecords(NAME_BOB)}

InitBirthdays ==
    /\ today \in Todays
    /\ data \in BirthdayBooks
    /\ record = Record_init(NAME_ANN)
    /\ outcome = NoOutcome
    /\ pc = "idle"
    /\ user_input = <<>>
    /\ saved = <<>>
    /\ steps = 0
    /\ passed = NothingPassed

GetUpcomingBirthdaysCall ==
    /\ LET res == get_upcoming_birthdays(data, today) IN
       outcome' = [op |-> "get_upcoming_birthdays", args |-> <<>>,
                   raised |-> res.raised, value |-> res.value]
    /\ UNCHANGED <<today, data, record, pc, user_input, saved, steps, passed>>

NextBirthdays == GetUpcomingBirthdaysCall

SpecBirthdays == InitBirthdays /\ [][NextBirthdays]_vars

----------------------------------------------------------------------------
(* Properties of the upcoming-birthday query (under SpecBirthdays) *)

Queried == outcome.op = "get_upcoming_birthdays"

IsFeb29(b) == b.month = 2 /\ b.day = 29

HasFeb29(book) ==
    \E i \in 1..Len(book) :
        book[i].birthday # NoBirthday /\ IsFeb29(book[i].birthday[1])

(* the birthday's month and day fall strictly before those of day t *)
EarlierInYear(b, t) == b.month < t.month \/ (b.month = t.month /\ b.day < t.day)

(* day d is k weeks and r days after Monday 2024-06-10 (or before it) *)
DaysPastMonday(d) == (toordinal(d) - toordinal(Date(2024, 6, 10))) % 7

(* the congratulation date the specification describes, for a birthday b   *)
(* that is not Feb 29                                                      *)
Unshifted(b, t) ==
    IF EarlierInYear(b, t) THEN Date(t.year + 1, b.month, b.day)
    ELSE Date(t.year, b.month, b.day)

Shifted(b, t) ==
    LET u == Unshifted(b, t) IN
    IF DaysPastMonday(u) = 5 THEN NextDay(NextDay(u))
    ELSE IF DaysPastMonday(u) = 6 THEN NextDay(u)
    ELSE u

WithinWeek(d, t) == \E k \in 0..7 : AddDays(t, k) = d

Qualifying(book, t) ==
    {i \in 1..Len(book) :
        /\ book[i].birthday # NoBirthday
        /\ WithinWeek(Shifted(book[i].birthday[1], t), t)}

(* C1: for a book without Feb-29 birthdays the query returns, in            *)
(* all_records() order, exactly one entry per record that has a birthday   *)
(* and whose congratulation date (this year's, or next year's when this    *)
(* year's is strictly before today; then moved from Saturday or Sunday to  *)
(* Monday) is at most 7 days after today; records without birthday never   *)
(* appear.                                                                 *)
C1_UpcomingExactlyQualifying ==
    (Queried /\ ~HasFeb29(data)) =>
        /\ outcome.raised = NoError
        /\ LET idx == Qualifying(data, today)
               nth(k) == CHOOSE i \in idx : Cardinality({j \in idx : j < i}) = k - 1
           IN /\ Len(outcome.value) = Cardinality(idx)
              /\ \A k \in 1..Len(outcome.value) :
                    outcome.value[k] =
                        [user |-> data[nth(k)],
                         congratulation_date |->
                            strftime(Shifted(data[nth(k)].birthday[1], today))]

(* a book of two birthdays of which one is returned and the other, on the  *)
(* Saturday 6 days ahead, is not                                           *)
C1_Witness ==
    /\ Queried /\ ~HasFeb29(data)
    /\ Len(data) = 2 /\ Len(outcome.value) = 1
    /\ \E i \in 1..2 :
        /\ data[i].birthday # NoBirthday
        /\ Date(today.year, data[i].birthday[1].month, data[i].birthday[1].day)
              = AddDays(today, 6)
        /\ DaysPastMonday(AddDays(today, 6)) = 5
        /\ outcome.value[1].user # data[i]

JUNE_10_2024 == Date(2024, 6, 10)
BORN_JUNE_8 == Date(1990, 6, 8)

C2_Case ==
    /\ Queried /\ ~HasFeb29(data)
    /\ today = JUNE_10_2024
    /\ \E i \in 1..Len(data) : data[i].birthday = <<BORN_JUNE_8>>

(* C2 as stated: with today = 2024.06.10 a record born 08.06.1990 is       *)
(* returned with congratulation date "2024.06.10".                         *)
C2_AsStated ==
    C2_Case =>
        \E k \in 1..Len(outcome.value) :
            /\ outcome.value[k].user.birthday = <<BORN_JUNE_8>>
            /\ outcome.value[k].congratulation_date
                  = <<"2", "0", "2", "4", ".", "0", "6", ".", "1", "0">>

(* C2 amended: with today = 2024.06.10 (a Monday) a record born 08.06.1990 *)
(* has this year's date Jun 8 2024 strictly before today, so its           *)
(* congratulation date is Jun 8 2025, a Sunday, moved to Monday Jun 9 2025;*)
(* that is more than 7 days ahead and the record is not returned.          *)
C2_PassedSaturdayExcluded ==
    C2_Case =>
        /\ DaysPastMonday(today) = 0
        /\ congrats_date(BORN_JUNE_8, today) =
              [raised |-> NoError, value |-> <<Date(2025, 6, 9)>>]
        /\ \A k \in 1..Len(outcome.value) :
              outcome.value[k].user.birthday # <<BORN_JUNE_8>>

C2_Witness ==
    /\ C2_Case
    /\ outcome.raised = NoError
    /\ Len(data) = 2 /\ Len(outcome.value) = 1

(* C9: every entry returned carries a congratulation date that is neither  *)
(* a Saturday nor a Sunday and lies between today and today + 7 days.      *)
C9_CongratsOnWeekdayWithinWeek ==
    (Queried /\ outcome.raised = NoError) =>
        \A k \in 1..Len(outcome.value) :
            \E n \in 0..7 :
                /\ strftime(AddDays(today, n)) = outcome.value[k].congratulation_date
                /\ DaysPastMonday(AddDays(today, n)) \in 0..4

(* an entry whose birthday fell on the weekend and was moved to Monday *)
C9_Witness ==
    /\ Queried /\ outcome.raised = NoError
    /\ \E k \in 1..Len(outcome.value) :
        LET b == outcome.value[k].user.birthday[1] IN
        /\ DaysPastMonday(Unshifted(b, today)) \in {5, 6}
        /\ outcome.value[k].congratulation_date # strftime(Unshifted(b, today))

(* the two cases of C10 *)
Feb29Unbuildable(t) ==
    \/ ~IsLeap(t.year)
    \/ IsLeap(t.year) /\ EarlierInYear(FEB_29, t) /\ ~IsLeap(t.year + 1)

(* C10: when some record has a Feb 29 birthday and today's year is not a   *)
(* leap year, or it is one but Feb 29 is before today and next year is not *)
(* a leap year, the query raises the date-construction error, returns no   *)
(* entry for any record, and leaves the address book unchanged.            *)
C10_Feb29Raises ==
    [][(outcome'.op = "get_upcoming_birthdays" /\ HasFeb29(data)
            /\ Feb29Unbuildable(today))
        => /\ outcome'.raised = ValueError
           /\ outcome'.value = <<>>
           /\ data' = data]_vars

(* the query raised in a leap year, on a book holding another birthday     *)
(* that qualifies                                                          *)
C10_Witness ==
    /\ Queried /\ outcome.raised = ValueError
    /\ IsLeap(today.year)
    /\ \E i \in 1..Len(data) :
        /\ data[i].birthday # NoBirthday
        /\ ~IsFeb29(data[i].birthday[1])
        /\ WithinWeek(Shifted(data[i].birthday[1], today), today)

----------------------------------------------------------------------------
(* Properties of the Record methods (under SpecRecord) *)

Range(seq) == {seq[i] : i \in 1..Len(seq)}

EditPhoneStep == outcome'.op = "edit_phone"
RemovePhoneStep == outcome'.op = "remove_phone"

(* C3 as stated: edit_phone with a well-formed old phone and a malformed   *)
(* new one fails with the invalid-phone-format error whether or not the    *)
(* old phone is on the record, and leaves the phones unchanged.            *)
C3_AsStated ==
    [][(EditPhoneStep /\ WellFormed(outcome'.args[1])
            /\ ~WellFormed(outcome'.args[2]))
        => /\ outcome'.raised = InvalidPhoneNumberFormatError
           /\ record'.phones = record.phones]_vars

(* C3 amended: edit_phone validates the old phone, looks it up, and        *)
(* validates the new phone only after the lookup succeeded.  With a        *)
(* well-formed old phone and a new phone that Phone() rejects, the call    *)
(* fails with the invalid-phone-format error when the old phone is on the  *)
(* record, and with the lookup's error, not the invalid-phone-format one,  *)
(* when it is not; the phones are unchanged either way.                    *)
C3_LookupBeforeNewPhoneValidation ==
    [][(EditPhoneStep /\ WellFormed(outcome'.args[1])
            /\ Phone_init(outcome'.args[2]) # NoError)
        => /\ record'.phones = record.phones
           /\ IF outcome'.args[1] \in Range(record.phones)
              THEN outcome'.raised = InvalidPhoneNumberFormatError
              ELSE outcome'.raised \notin {NoError, InvalidPhoneNumberFormatError}]_vars

(* both cases of the amended C3 need a record that has phones; this is the *)
(* failed edit of a phone that is absent from a record holding another     *)
C3_Witness ==
    /\ outcome.op = "edit_phone"
    /\ outcome.args = <<PHONE_2, PHONE_ABC>>
    /\ record.phones = <<PHONE_1>>
    /\ outcome.raised # NoError

(* C4 as stated: remove_phone and edit_phone of a well-formed phone that   *)
(* is not on the record fail with NoPhoneError and leave the phones        *)
(* unchanged.                                                              *)
C4_AsStated ==
    [][((RemovePhoneStep \/ (EditPhoneStep /\ WellFormed(outcome'.args[2])))
            /\ WellFormed(outcome'.args[1])
            /\ outcome'.args[1] \notin Range(record.phones))
        => /\ outcome'.raised = NoPhoneError
           /\ record'.phones = record.phones]_vars

(* C7 as stated: every stored phone is a string of exactly 10 ASCII        *)
(* digits, and adding any other string fails with the invalid-phone-format *)
(* error.                                                                  *)
C7_AsStated ==
    /\ \A i \in 1..Len(record.phones) : WellFormed(record.phones[i])
    /\ (outcome.op = "add_phone" /\ ~WellFormed(outcome.args[1]))
          => outcome.raised = InvalidPhoneNumberFormatError

(* the 1-based slot of the first entry of seq equal to x *)
FirstSlot(seq, x) ==
    CHOOSE i \in 1..Len(seq) : seq[i] = x /\ \A j \in 1..(i - 1) : seq[j] # x

(* C11: a successful edit_phone(old, new) replaces only the slot of the    *)
(* first entry equal to old: the length is unchanged and every other slot, *)
(* later duplicates of old included, keeps its value and position; a       *)
(* successful remove_phone(old) deletes only the first entry equal to old  *)
(* and keeps the order of the rest; name and birthday are unchanged.       *)
C11_OnlyFirstOccurrence ==
    [][/\ (EditPhoneStep /\ outcome'.raised = NoError) =>
            LET old == outcome'.args[1]
                new == outcome'.args[2]
                at == FirstSlot(record.phones, old) IN
            /\ old \in Range(record.phones)
            /\ Len(record'.phones) = Len(record.phones)
            /\ record'.phones[at] = new
            /\ \A j \in 1..Len(record.phones) :
                  j # at => record'.phones[j] = record.phones[j]
            /\ record'.name = record.name
            /\ record'.birthday = record.birthday
       /\ (RemovePhoneStep /\ outcome'.raised = NoError) =>
            LET old == outcome'.args[1]
                at == FirstSlot(record.phones, old) IN
            /\ old \in Range(record.phones)
            /\ Len(record'.phones) = Len(record.phones) - 1
            /\ \A j \in 1..(at - 1) : record'.phones[j] = record.phones[j]
            /\ \A j \in at..Len(record'.phones) :
                  record'.phones[j] = record.phones[j + 1]
            /\ record'.name = record.name
            /\ record'.birthday = record.birthday]_vars

(* the edit of 1111111111 into 2222222222 on a record that held it twice   *)
(* and has a birthday: the second copy is still there                      *)
C11_Witness ==
    /\ outcome.op = "edit_phone" /\ outcome.raised = NoError
    /\ outcome.args = <<PHONE_1, PHONE_2>>
    /\ record.phones = <<PHONE_2, PHONE_1>>
    /\ record.birthday # NoBirthday

----------------------------------------------------------------------------
(* Properties of the AddressBook methods (under SpecBook) *)

Without(book, name) == SelectSeq(book, LAMBDA r : r.name # name)

(* C8: find(name) fails with the record-not-found error exactly when no    *)
(* entry is keyed by name and otherwise returns the record last passed to  *)
(* add_record under that name; delete(name) fails with that error and      *)
(* leaves the book unchanged when name is absent, and otherwise removes    *)
(* exactly that entry and leaves the others as they were, so that name is  *)
(* no longer a key.                                                        *)
C8_FindAndDelete ==
    [][/\ outcome'.op = "find" =>
            LET name == outcome'.args[1] IN
            /\ data' = data
            /\ (outcome'.raised = NoRecordError) <=> (name \notin Keys(data))
            /\ name \in Keys(data) =>
                  /\ outcome'.raised = NoError
                  /\ outcome'.value = passed[name]
       /\ outcome'.op = "delete" =>
            LET name == outcome'.args[1] IN
            IF name \in Keys(data)
            THEN /\ outcome'.raised = NoError
                 /\ data' = Without(data, name)
                 /\ Len(data') = Len(data) - 1
                 /\ name \notin Keys(data')
            ELSE /\ outcome'.raised = NoRecordError
                 /\ data' = data]_vars

(* find returned the record of a name whose first record was replaced *)
C8_Witness ==
    /\ outcome.op = "find" /\ outcome.raised = NoError
    /\ Len(data) = 3
    /\ outcome.args = <<data[1].name>>
    /\ outcome.value = <<data[1]>>
    /\ data[1].phones = <<PHONE_1>>
    /\ data[2].phones = <<>>

----------------------------------------------------------------------------
(* The command layer, main.py *)

Whitespace == {" ", "\t"}

(* str.split(): the maximal runs of non-whitespace characters *)
RECURSIVE split_loop(_, _, _, _)
split_loop(s, i, word, words) ==
    LET closed == IF word = <<>> THEN words ELSE Append(words, word) IN
    IF i > Len(s) THEN closed
    ELSE IF s[i] \in Whitespace THEN split_loop(s, i + 1, <<>>, closed)
    ELSE split_loop(s, i + 1, Append(word, s[i]), words)

split(s) == split_loop(s, 1, <<>>, <<>>)

(* str.strip() *)
RECURSIVE strip(_)
strip(s) ==
    IF s = <<>> THEN s
    ELSE IF s[1] \in Whitespace THEN strip(Tail(s))
    ELSE IF s[Len(s)] \in Whitespace THEN strip(SubSeq(s, 1, Len(s) - 1))
    ELSE s

UpperCase == <<"A", "B", "C", "D", "E", "F", "G", "H", "I", "J", "K", "L", "M",
               "N", "O", "P", "Q", "R", "S", "T", "U", "V", "W", "X", "Y", "Z">>
LowerCase == <<"a", "b", "c", "d", "e", "f", "g", "h", "i", "j", "k", "l", "m",
               "n", "o", "p", "q", "r", "s", "t", "u", "v", "w", "x", "y", "z">>

(* str.lower() *)
lower(s) ==
    [i \in 1..Len(s) |->
        IF \E k \in 1..Len(UpperCase) : UpperCase[k] = s[i]
        THEN LowerCase[CHOOSE k \in 1..Len(UpperCase) : UpperCase[k] = s[i]]
        ELSE s[i]]

(* x in y for two str: x is a substring of y *)
str_in(x, y) ==
    \E i \in 0..(Len(y) - Len(x)) : SubSeq(y, i + 1, i + Len(x)) = x

(* parse_input: unpacking an empty split() raises ValueError *)
parse_input(line) ==
    LET words == split(line) IN
    IF Len(words) = 0
    THEN [raised |-> ValueError, command |-> <<>>, args |-> <<>>]
    ELSE [raised |-> NoError, command |-> lower(strip(words[1])),
          args |-> Tail(words)]

(* input_error.inner: the message returned for an exception *)
input_error(raised) ==
    IF raised = NoRecordError THEN "No such user found."
    ELSE IF raised = InvalidPhoneNumberFormatError THEN "Invalid format of phone number."
    ELSE IF raised = InvalidBirthdayFormatError THEN "Invalid format of birtday."
    ELSE IF raised = NoPhoneError THEN "No such phone number found."
    ELSE IF raised = ValueError THEN "ValueError."
    ELSE IF raised = "KeyError" THEN "KeyError."
    ELSE IF raised = IndexError THEN "Index error."
    ELSE "Unexpected error."

(* the fields of s between the dots *)
RECURSIVE fields_loop(_, _, _, _)
fields_loop(s, i, word, words) ==
    IF i > Len(s) THEN Append(words, word)
    ELSE IF s[i] = "." THEN fields_loop(s, i + 1, <<>>, Append(words, word))
    ELSE fields_loop(s, i + 1, Append(word, s[i]), words)

RECURSIVE to_int(_)
to_int(digits) ==
    IF digits = <<>> THEN 0
    ELSE 10 * to_int(SubSeq(digits, 1, Len(digits) - 1))
         + (CHOOSE n \in 0..9 : ToString(n) = digits[Len(digits)])

(* Birthday.__init__: datetime.strptime(value, "%d.%m.%Y").date(), a       *)
(* ValueError turned into InvalidBirthdayFormatError; fields of ASCII      *)
(* digits, day and month of one or two, the year of four                   *)
Birthday_init(value) ==
    LET f == fields_loop(value, 1, <<>>, <<>>)
        numeric(w) == Len(w) > 0 /\ \A i \in 1..Len(w) : w[i] \in AsciiDigits
    IN
    IF /\ Len(f) = 3
       /\ numeric(f[1]) /\ Len(f[1]) <= 2
       /\ numeric(f[2]) /\ Len(f[2]) <= 2
       /\ numeric(f[3]) /\ Len(f[3]) = 4
       /\ date_init(to_int(f[3]), to_int(f[2]), to_int(f[1])) = NoError
    THEN [raised |-> NoError,
          value |-> <<Date(to_int(f[3]), to_int(f[2]), to_int(f[1]))>>]
    ELSE [raised |-> InvalidBirthdayFormatError, value |-> <<>>]

(* Record.add_birthday *)
add_birthday_to_record(r, birthday) ==
    LET b == Birthday_init(birthday) IN
    IF b.raised # NoError THEN [record |-> r, raised |-> b.raised]
    ELSE [record |-> [r EXCEPT !.birthday = b.value], raised |-> NoError]

(* a change made through a Record that the book refers to *)
stored(book, r) == [book EXCEPT ![KeyIndex(book, r.name)] = r]

(* add_contact, without its decorator *)
add_contact(args, book) ==
    IF Len(args) < 2 THEN [book |-> book, raised |-> ValueError, message |-> ""]
    ELSE
    LET name == args[1]
        phone == args[2]
    IN
    IF name \in Keys(book)
    THEN LET res == add_phone(find(book, name).value[1], phone) IN
         [book |-> stored(book, res.record), raised |-> res.raised,
          message |-> "Contact updated."]
    ELSE IF Name_init(name) # NoError
    THEN [book |-> book, raised |-> Name_init(name), message |-> ""]
    ELSE LET added == add_record(book, Record_init(name))
             res == add_phone(Record_init(name), phone) IN
         [book |-> stored(added, res.record), raised |-> res.raised,
          message |-> "Contact added."]

(* change_contact, without its decorator *)
change_contact(args, book) ==
    IF Len(args) < 3 THEN [book |-> book, raised |-> ValueError, message |-> ""]
    ELSE
    LET found == find(book, args[1]) IN
    IF found.raised # NoError
    THEN [book |-> book, raised |-> found.raised, message |-> ""]
    ELSE LET res == edit_phone(found.value[1], args[2], args[3]) IN
         [book |-> stored(book, res.record), raised |-> res.raised,
          message |-> "Contact changed."]

(* find_numbers_by_name, without its decorator *)
find_numbers_by_name(args, book) ==
    IF Len(args) < 1 THEN [book |-> book, raised |-> IndexError, message |-> ""]
    ELSE [book |-> book, raised |-> find(book, args[1]).raised,
          message |-> "Phone numbers of"]

(* add_birthday, without its decorator *)
add_birthday(args, book) ==
    IF Len(args) < 2 THEN [book |-> book, raised |-> ValueError, message |-> ""]
    ELSE
    LET found == find(book, args[1]) IN
    IF found.raised # NoError
    THEN [book |-> book, raised |-> found.raised, message |-> ""]
    ELSE LET res == add_birthday_to_record(found.value[1], args[2]) IN
         [book |-> stored(book, res.record), raised |-> res.raised,
          message |-> "Birthday added for"]

(* show_birthday, without its decorator *)
show_birthday(args, book) ==
    IF Len(args) < 1 THEN [book |-> book, raised |-> IndexError, message |-> ""]
    ELSE
    LET found == find(book, args[1]) IN
    IF found.raised # NoError
    THEN [book |-> book, raised |-> found.raised, message |-> ""]
    ELSE [book |-> book, raised |-> NoError,
          message |-> IF found.value[1].birthday # NoBirthday
                      THEN "Birthday of" ELSE "No birthday added for user"]

(* birthdays, without its decorator *)
birthdays(args, book, current_date) ==
    LET upcoming_birthdays == get_upcoming_birthdays(book, current_date) IN
    [book |-> book, raised |-> upcoming_birthdays.raised,
     message |-> IF Len(upcoming_birthdays.value) > 0
                 THEN "Upcoming birthdays:" ELSE "No upcoming birthdays for now."]

(* output_all_contacts, without its decorator *)
output_all_contacts(book) ==
    [book |-> book, raised |-> NoError,
     message |-> IF Len(all_records(book)) > 0
                 THEN "Here's all added contacts:" ELSE "No contacts added so far."]

----------------------------------------------------------------------------
(* use_case: the command loop *)

INFO == <<"i", "n", "f", "o">>
HELLO == <<"h", "e", "l", "l", "o">>
ADD == <<"a", "d", "d">>
CHANGE == <<"c", "h", "a", "n", "g", "e">>
PHONE == <<"p", "h", "o", "n", "e">>
ADD_BIRTHDAY == <<"a", "d", "d", "-", "b", "i", "r", "t", "h", "d", "a", "y">>
SHOW_BIRTHDAY == <<"s", "h", "o", "w", "-", "b", "i", "r", "t", "h", "d", "a", "y">>
BIRTHDAYS == <<"b", "i", "r", "t", "h", "d", "a", "y", "s">>
ALL == <<"a", "l", "l">>
CLOSE == <<"c", "l", "o", "s", "e">>
EXIT == <<"e", "x", "i", "t">>

(* the branch of the if/elif chain of use_case that a command takes *)
branch(command) ==
    IF command = INFO THEN "info"
    ELSE IF command = HELLO THEN "hello"
    ELSE IF command = ADD THEN "add"
    ELSE IF command = CHANGE THEN "change"
    ELSE IF command = PHONE THEN "phone"
    ELSE IF command = ADD_BIRTHDAY THEN "add-birthday"
    ELSE IF command = SHOW_BIRTHDAY THEN "show-birthday"
    ELSE IF command = BIRTHDAYS THEN "birthdays"
    ELSE IF command = ALL THEN "all"
    ELSE IF str_in(command, CLOSE) THEN "close"
    ELSE IF command = EXIT THEN "exit"
    ELSE "invalid"

(* the words joined by single spaces *)
RECURSIVE Line(_)
Line(words) ==
    IF Len(words) = 1 THEN words[1]
    ELSE words[1] \o <<" ">> \o Line(Tail(words))

DATE_8_JUNE == <<"0", "8", ".", "0", "6", ".", "1", "9", "9", "0">>
DATE_29_FEB == <<"2", "9", ".", "0", "2", ".", "2", "0", "0", "0">>
DATE_31_FEB == <<"3", "1", ".", "0", "2", ".", "1", "9", "9", "0">>

(* the lines typed: well-formed commands, commands with missing or invalid *)
(* arguments, unknown commands, blank lines                                *)
InputLines ==
    { <<>>,
      <<" ", "\t">>,
      INFO,
      <<" ">> \o Line(<<<<"H", "e", "l", "l", "o">>>>) \o <<" ">>,
      ADD,
      Line(<<ADD, NAME_ANN, PHONE_1>>),
      Line(<<ADD, NAME_BOB, PHONE_ABC>>),
      Line(<<ADD, NAME_ANN>>),
      Line(<<CHANGE, NAME_ANN, PHONE_1, PHONE_2>>),
      Line(<<CHANGE, NAME_ANN, PHONE_1, PHONE_ABC>>),
      Line(<<CHANGE, NAME_EVE, PHONE_1, PHONE_2>>),
      Line(<<PHONE, NAME_ANN>>),
      PHONE,
      Line(<<ADD_BIRTHDAY, NAME_ANN, DATE_8_JUNE>>),
      Line(<<ADD_BIRTHDAY, NAME_ANN, DATE_29_FEB>>),
      Line(<<ADD_BIRTHDAY, NAME_ANN, DATE_31_FEB>>),
      Line(<<SHOW_BIRTHDAY, NAME_ANN>>),
      SHOW_BIRTHDAY,
      BIRTHDAYS,
      ALL,
      <<"f", "o", "o">>,
      <<"c">>,
      CLOSE,
      <<"C", "L", "O", "S", "E">>,
      EXIT }

(* what load_address_book returns: an empty book when there is no file,    *)
(* the pickled book otherwise                                              *)
LoadedBooks ==
    {<<>>, <<[name |-> NAME_ANN, phones |-> <<PHONE_1>>, birthday |-> NoBirthday]>>}

InitSession ==
    /\ today \in {Date(2023, 12, 30), JUNE_10_2024}
    /\ data \in LoadedBooks
    /\ saved = IF data = <<>> THEN <<>> ELSE <<data>>
    /\ record = Record_init(NAME_ANN)
    /\ outcome = NoOutcome
    /\ pc = "running"
    /\ user_input = <<>>
    /\ steps = 0
    /\ passed = NothingPassed

(* input("Enter a command: ") returns the line, which parses to a command  *)
(* of the given branch                                                     *)
Reads(line, br) ==
    /\ pc = "running"
    /\ steps < MaxLines
    /\ parse_input(line).raised = NoError
    /\ branch(parse_input(line).command) = br
    /\ user_input' = line
    /\ steps' = steps + 1

(* a decorated handler ran: its effect on the book, the message printed *)
Handled(br, res) ==
    /\ data' = res.book
    /\ outcome' = [op |-> br, args |-> <<>>, raised |-> res.raised,
                   value |-> <<IF res.raised = NoError THEN res.message
                               ELSE input_error(res.raised)>>]
    /\ UNCHANGED <<today, record, pc, saved, passed>>

(* a blank line: parse_input raises, the exception leaves the loop and     *)
(* input_error.inner turns it into the return value of use_case            *)
BlankLine(line) ==
    /\ pc = "running"
    /\ steps < MaxLines
    /\ parse_input(line).raised # NoError
    /\ user_input' = line
    /\ steps' = steps + 1
    /\ pc' = "terminated"
    /\ outcome' = [op |-> "use_case", args |-> <<>>,
                   raised |-> parse_input(line).raised,
                   value |-> <<input_error(parse_input(line).raised)>>]
    /\ UNCHANGED <<today, data, record, saved, passed>>

(* input() raises EOFError at the end of the input; inner catches it as    *)
(* Exception                                                               *)
EndOfInput ==
    /\ pc = "running"
    /\ pc' = "terminated"
    /\ outcome' = [op |-> "use_case", args |-> <<>>, raised |-> "EOFError",
                   value |-> <<input_error("EOFError")>>]
    /\ UNCHANGED <<today, data, record, user_input, saved, steps, passed>>

Info(line) ==
    /\ Reads(line, "info")
    /\ Handled("info", [book |-> data, raised |-> NoError, message |-> "ASSISTANT_INFO"])

Hello(line) ==
    /\ Reads(line, "hello")
    /\ Handled("hello", [book |-> data, raised |-> NoError, message |-> "Hi!"])

Add(line) ==
    /\ Reads(line, "add")
    /\ Handled("add", add_contact(parse_input(line).args, data))

Change(line) ==
    /\ Reads(line, "change")
    /\ Handled("change", change_contact(parse_input(line).args, data))

PhoneCmd(line) ==
    /\ Reads(line, "phone")
    /\ Handled("phone", find_numbers_by_name(parse_input(line).args, data))

AddBirthday(line) ==
    /\ Reads(line, "add-birthday")
    /\ Handled("add-birthday", add_birthday(parse_input(line).args, data))

ShowBirthday(line) ==
    /\ Reads(line, "show-birthday")
    /\ Handled("show-birthday", show_birthday(parse_input(line).args, data))

BirthdaysCmd(line) ==
    /\ Reads(line, "birthdays")
    /\ Handled("birthdays", birthdays(parse_input(line).args, data, today))

All(line) ==
    /\ Reads(line, "all")
    /\ Handled("all", output_all_contacts(data))

Invalid(line) ==
    /\ Reads(line, "invalid")
    /\ Handled("invalid", [book |-> data, raised |-> NoError,
                           message |-> "Invalid command."])

(* save_address_book: the whole book is pickled into the file *)
save_address_book(book) == <<book>>

Close(line) ==
    /\ Reads(line, "close")
    /\ saved' = save_address_book(data)
    /\ pc' = "terminated"
    /\ outcome' = [op |-> "close", args |-> <<>>, raised |-> NoError,
                   value |-> <<"Good bye!">>]
    /\ UNCHANGED <<today, data, record, passed>>

Exit(line) ==
    /\ Reads(line, "exit")
    /\ saved' = save_address_book(data)
    /\ pc' = "terminated"
    /\ outcome' = [op |-> "exit", args |-> <<>>, raised |-> NoError,
                   value |-> <<>>]
    /\ UNCHANGED <<today, data, record, passed>>

NextSession ==
    \/ \E line \in InputLines : BlankLine(line)
    \/ EndOfInput
    \/ \E line \in InputLines : Info(line)
    \/ \E line \in InputLines : Hello(line)
    \/ \E line \in InputLines : Add(line)
    \/ \E line \in InputLines : Change(line)
    \/ \E line \in InputLines : PhoneCmd(line)
    \/ \E line \in InputLines : AddBirthday(line)
    \/ \E line \in InputLines : ShowBirthday(line)
    \/ \E line \in InputLines : BirthdaysCmd(line)
    \/ \E line \in InputLines : All(line)
    \/ \E line \in InputLines : Invalid(line)
    \/ \E line \in InputLines : Close(line)
    \/ \E line \in InputLines : Exit(line)

SpecSession == InitSession /\ [][NextSession]_vars

----------------------------------------------------------------------------
(* Properties of the command loop (under SpecSession) *)

CloseOrExit(line) ==
    /\ split(line) # <<>>
    /\ lower(split(line)[1]) \in {CLOSE, EXIT}

(* C5 as stated: the session never ends because of a line that is not the *)
(* command close or exit; after such a line the loop is still running.     *)
C5_AsStated ==
    [][(pc = "running" /\ steps' = steps + 1 /\ ~CloseOrExit(user_input'))
        => pc' = "running"]_vars

(* C6 as stated: once the loop has terminated, the address book as it      *)
(* stood after the last processed command has been saved.                  *)
C6_AsStated == pc = "terminated" => saved = <<data>>

(* C12 as stated: an add command that ends in an error message leaves the *)
(* address book as it was; no record without phones is created.            *)
C12_AsStated ==
    [][(outcome'.op = "add" /\ outcome'.raised # NoError) => data' = data]_vars

====
